---- MODULE Spec2Model ----
(***************************************************************************)
(* Bridging headers of swift-esp32c6-examples: the two macro-to-function   *)
(* shims (shim_wifi_init_config, shim_esp_log_level_local), each present   *)
(* in two copies, the threads that call them, and the preprocessing of the *)
(* five headers into a translation unit.                                   *)
(*                                                                         *)
(* The vendor SDK (ESP-IDF) is the environment.  Its two macros are        *)
(* modelled by what they read and write: WIFI_INIT_CONFIG_DEFAULT() is an  *)
(* initializer built from SDK globals and build constants, and             *)
(* ESP_LOG_LEVEL_LOCAL() formats printf-style and appends to the log sink  *)
(* when the level is enabled.                                              *)
(***************************************************************************)
EXTENDS Integers, Sequences, FiniteSets, TLC

\* ----------------------------------------------------------------- bounds
NumThreads == 2
MaxCalls == 2
MaxIncludes == 2

Threads == 1..NumThreads

\* ------------------------------------------------------------ environment
\* SDK globals and build configuration read by the two vendor macros.
SdkStates == [wifi_feature_caps : {0, 1}, log_maximum_level : {2, 3}]

\* The build configuration is fixed when the firmware is compiled.
SameBuild(g, h) == g.log_maximum_level = h.log_maximum_level

\* The wifi_init_config_t fields kept: one address of a global, one value of
\* a global, one build constant.
Uninit == [osi_funcs |-> "?", feature_caps |-> -1, magic |-> "?"]

WIFI_INIT_CONFIG_DEFAULT(g) ==
  [osi_funcs    |-> "&g_wifi_osi_funcs",
   feature_caps |-> g.wifi_feature_caps,
   magic        |-> "WIFI_INIT_CONFIG_MAGIC"]

ConfigFields == {"osi_funcs", "feature_caps", "magic"}

\* printf-style formatting over strings as sequences of characters: "%s"
\* takes the next variadic argument, "%%" is a percent sign, and a
\* conversion with no argument left reads an indeterminate value ("?").
RECURSIVE vprintf(_, _)
vprintf(format, va) ==
  IF format = <<>> THEN <<>>
  ELSE IF Head(format) = "%" /\ Len(format) >= 2
    THEN IF format[2] = "s"
           THEN IF va = <<>>
                  THEN <<"?">> \o vprintf(SubSeq(format, 3, Len(format)), va)
                  ELSE Head(va) \o vprintf(SubSeq(format, 3, Len(format)), Tail(va))
         ELSE IF format[2] = "%"
           THEN <<"%">> \o vprintf(SubSeq(format, 3, Len(format)), va)
         ELSE <<"?">> \o vprintf(SubSeq(format, 3, Len(format)), va)
  ELSE <<Head(format)>> \o vprintf(Tail(format), va)

\* The level is the low three bits of the configuration word; level 0 is
\* ESP_LOG_NONE and levels above the build's maximum are compiled out.
ESP_LOG_ENABLED(g, configs) ==
  (configs % 8) >= 1 /\ (configs % 8) <= g.log_maximum_level

\* One invocation of the logging macro: the arguments it is handed, with the
\* strings its pointer arguments designate at that moment.
ESP_LOG_LEVEL_LOCAL(g, call, out) ==
  IF ESP_LOG_ENABLED(g, call.configs)
    THEN Append(out, [level |-> call.configs % 8,
                      tag   |-> call.tagText,
                      text  |-> vprintf(call.format, call.vaText)])
    ELSE out

\* ------------------------------------------------------------------ state
VARIABLES
  sdk,          \* SDK globals and build configuration
  logOut,       \* the log sink: the lines emitted so far
  shimStatics,  \* storage owned by the headers outside any frame
  pc,           \* per thread: "idle", or the shim statement it is about to run
  frame,        \* per thread: the running shim's parameters and local
  args,         \* per thread: the argument expressions of its call in progress
  mem,          \* per thread: the caller's tag and message buffers of that call
  seen,         \* per thread: the macro invocations of its running call
  macroEvals,   \* number of vendor macro invocations so far
  returned,     \* every shim return so far, in order: the value handed back,
                \* the macro invocations the call made, the SDK state they ran in
  shimCalls,    \* number of shim calls started
  included,     \* per header: #include directives met in the translation unit
  onceFiles,    \* headers the preprocessor has marked #pragma once
  tuDefs,       \* per header: function definitions it has put in the unit
  tuGlobals     \* objects with static storage the headers have put in the unit

ppVars == <<included, onceFiles, tuDefs, tuGlobals>>
vars == <<sdk, logOut, shimStatics, pc, frame, args, mem, seen,
            macroEvals,           returned, shimCalls, included, onceFiles, tuDefs, tuGlobals>>

\* ----------------------------------------------------------------- inputs
\* esp_log_config_t.data: ESP_LOG_NONE, ESP_LOG_INFO and a
\* level outside the enumeration.
LogConfigs == {0, 3, 7}
Tags == {<<"T">>, <<"U">>}
Messages == {<<"a">>, <<"%", "s">>}

NoArgs == [config |-> [data |-> 0], tag |-> "null", message |-> "null"]
NoMem == [tagbuf |-> <<>>, msgbuf |-> <<>>]
NoFrame == [fn |-> "none", copy |-> "none", config |-> Uninit,
            p_config |-> [data |-> 0], p_tag |-> "null", p_message |-> "null"]

Deref(m, p) == IF p = "null" THEN <<"?">> ELSE m[p]

NoMacro == [macro |-> "WIFI_INIT_CONFIG_DEFAULT", configs |-> 0,
            tag |-> "null", format |-> <<>>, va |-> <<>>]

\* ------------------------------------------------------------------ shims
\* Each shim is given statement by statement: what the statement does to the
\* frame, to storage outside the frame, to the caller's buffers, which vendor
\* macro invocations it makes, and where control goes next.

\* Variants of the shims, each with one plausible slip, used to show that the
\* properties below depend on the shims' code.

\* "wifi_init_config_t config; return config;": the initializer left out.
shim_wifi_uninitialised(step, local, statics, m, g) ==
  IF step = "init"
    THEN [local |-> local, statics |-> statics, mem |-> m,
          calls |-> <<>>, ret |-> Uninit, next |-> "ret"]
    ELSE [local |-> local, statics |-> statics, mem |-> m,
          calls |-> <<>>, ret |-> local.config, next |-> "idle"]

\* "config.feature_caps = 0;" before the return.
shim_wifi_alters_field(step, local, statics, m, g) ==
  IF step = "init"
    THEN [local |-> [local EXCEPT !.config = WIFI_INIT_CONFIG_DEFAULT(g)],
          statics |-> statics, mem |-> m,
          calls |-> <<NoMacro>>, ret |-> Uninit, next |-> "ret"]
    ELSE [local |-> local, statics |-> statics, mem |-> m,
          calls |-> <<>>,
          ret |-> [local.config EXCEPT !.feature_caps = 0], next |-> "idle"]

\* "static wifi_init_config_t config": one object shared by all callers.
shim_wifi_static_local(step, local, statics, m, g) ==
  IF step = "init"
    THEN [local |-> local, statics |-> WIFI_INIT_CONFIG_DEFAULT(g), mem |-> m,
          calls |-> <<NoMacro>>, ret |-> Uninit, next |-> "ret"]
    ELSE [local |-> local, statics |-> statics, mem |-> m,
          calls |-> <<>>, ret |-> statics, next |-> "idle"]

\* "ESP_LOG_LEVEL_LOCAL(config.data, tag, message)": the message as format.
shim_log_message_as_format(step, local, statics, m, g) ==
  IF step = "log"
    THEN [local |-> local, statics |-> statics, mem |-> m,
          calls |-> <<[macro   |-> "ESP_LOG_LEVEL_LOCAL",
                       configs |-> local.p_config.data,
                       tag     |-> local.p_tag,
                       format  |-> Deref(m, local.p_message),
                       va      |-> <<>>]>>,
          ret |-> Uninit, next |-> "end"]
    ELSE [local |-> local, statics |-> statics, mem |-> m,
          calls |-> <<>>, ret |-> Uninit, next |-> "idle"]

\* The message buffer is cleared through the pointer after logging.
shim_log_writes_buffer(step, local, statics, m, g) ==
  IF step = "log"
    THEN [local |-> local, statics |-> statics, mem |-> m,
          calls |-> <<[macro   |-> "ESP_LOG_LEVEL_LOCAL",
                       configs |-> local.p_config.data,
                       tag     |-> local.p_tag,
                       format  |-> <<"%", "s">>,
                       va      |-> <<local.p_message>>]>>,
          ret |-> Uninit, next |-> "end"]
    ELSE [local |-> local, statics |-> statics,
          mem |-> [m EXCEPT !.msgbuf = <<>>],
          calls |-> <<>>, ret |-> Uninit, next |-> "idle"]

\* "if (config.data > ESP_LOG_VERBOSE) return;" before the macro.
shim_log_validates_level(step, local, statics, m, g) ==
  IF step = "log"
    THEN [local |-> local, statics |-> statics, mem |-> m,
          calls |-> IF local.p_config.data > 5 THEN <<>>
                    ELSE <<[macro   |-> "ESP_LOG_LEVEL_LOCAL",
                            configs |-> local.p_config.data,
                            tag     |-> local.p_tag,
                            format  |-> <<"%", "s">>,
                            va      |-> <<local.p_message>>]>>,
          ret |-> Uninit, next |-> "end"]
    ELSE [local |-> local, statics |-> statics, mem |-> m,
          calls |-> <<>>, ret |-> Uninit, next |-> "idle"]

\* The macro statement written twice.
shim_log_twice(step, local, statics, m, g) ==
  IF step = "log"
    THEN [local |-> local, statics |-> statics, mem |-> m,
          calls |-> <<[macro   |-> "ESP_LOG_LEVEL_LOCAL",
                       configs |-> local.p_config.data,
                       tag     |-> local.p_tag,
                       format  |-> <<"%", "s">>,
                       va      |-> <<local.p_message>>],
                      [macro   |-> "ESP_LOG_LEVEL_LOCAL",
                       configs |-> local.p_config.data,
                       tag     |-> local.p_tag,
                       format  |-> <<"%", "s">>,
                       va      |-> <<local.p_message>>]>>,
          ret |-> Uninit, next |-> "end"]
    ELSE [local |-> local, statics |-> statics, mem |-> m,
          calls |-> <<>>, ret |-> Uninit, next |-> "idle"]

\* The tag used as the logged string: the two pointers confused.
shim_log_tag_as_message(step, local, statics, m, g) ==
  IF step = "log"
    THEN [local |-> local, statics |-> statics, mem |-> m,
          calls |-> <<[macro   |-> "ESP_LOG_LEVEL_LOCAL",
                       configs |-> local.p_config.data,
                       tag     |-> local.p_tag,
                       format  |-> <<"%", "s">>,
                       va      |-> <<local.p_tag>>]>>,
          ret |-> Uninit, next |-> "end"]
    ELSE [local |-> local, statics |-> statics, mem |-> m,
          calls |-> <<>>, ret |-> Uninit, next |-> "idle"]

\* 05_wifi_scan
shim_wifi_init_config_05(step, local, statics, m, g) ==
  IF step = "init"
    THEN [local   |-> [local EXCEPT !.config = WIFI_INIT_CONFIG_DEFAULT(g)],
          statics |-> statics, mem |-> m,
          calls   |-> <<NoMacro>>,
          ret     |-> Uninit, next |-> "ret"]
    ELSE [local   |-> local, statics |-> statics, mem |-> m,
          calls   |-> <<>>,
          ret     |-> local.config, next |-> "idle"]

\* 06_wifi_fast_scan
shim_wifi_init_config_06(step, local, statics, m, g) ==
  IF step = "init"
    THEN [local   |-> [local EXCEPT !.config = WIFI_INIT_CONFIG_DEFAULT(g)],
          statics |-> statics, mem |-> m,
          calls   |-> <<NoMacro>>,
          ret     |-> Uninit, next |-> "ret"]
    ELSE [local   |-> local, statics |-> statics, mem |-> m,
          calls   |-> <<>>,
          ret     |-> local.config, next |-> "idle"]

\* 07_logging_errors
shim_esp_log_level_local_07(step, local, statics, m, g) ==
  IF step = "log"
    THEN [local   |-> local, statics |-> statics, mem |-> m,
          calls   |-> <<[macro   |-> "ESP_LOG_LEVEL_LOCAL",
                         configs |-> local.p_config.data,
                         tag     |-> local.p_tag,
                         format  |-> <<"%", "s">>,
                         va      |-> <<local.p_message>>]>>,
          ret     |-> Uninit, next |-> "end"]
    ELSE [local   |-> local, statics |-> statics, mem |-> m,
          calls   |-> <<>>,
          ret     |-> Uninit, next |-> "idle"]

\* 09_spm_template
shim_esp_log_level_local_09(step, local, statics, m, g) ==
  IF step = "log"
    THEN [local   |-> local, statics |-> statics, mem |-> m,
          calls   |-> <<[macro   |-> "ESP_LOG_LEVEL_LOCAL",
                         configs |-> local.p_config.data,
                         tag     |-> local.p_tag,
                         format  |-> <<"%", "s">>,
                         va      |-> <<local.p_message>>]>>,
          ret     |-> Uninit, next |-> "end"]
    ELSE [local   |-> local, statics |-> statics, mem |-> m,
          calls   |-> <<>>,
          ret     |-> Uninit, next |-> "idle"]

\* The copy a caller's translation unit holds.
RunShim(step, local, statics, m, g) ==
  CASE local.copy = "05" -> shim_wifi_init_config_05(step, local, statics, m, g)
    [] local.copy = "06" -> shim_wifi_init_config_06(step, local, statics, m, g)
    [] local.copy = "07" -> shim_esp_log_level_local_07(step, local, statics, m, g)
    [] OTHER             -> shim_esp_log_level_local_09(step, local, statics, m, g)

\* A macro invocation as the vendor code sees it: the arguments, the strings
\* the pointer arguments designate, and the SDK state it runs in.
Seen(t, c, m, g) ==
  [thread  |-> t, macro |-> c.macro, configs |-> c.configs, tag |-> c.tag,
   format  |-> c.format, va |-> c.va,
   tagText |-> Deref(m, c.tag),
   vaText  |-> [i \in 1..Len(c.va) |-> Deref(m, c.va[i])],
   sdk     |-> g]

SeenAll(t, calls, m, g) == [i \in 1..Len(calls) |-> Seen(t, calls[i], m, g)]

\* The effect of a sequence of macro invocations on the log sink.
RECURSIVE Emit(_, _)
Emit(invs, out) ==
  IF invs = <<>> THEN out
  ELSE Emit(Tail(invs),
            IF Head(invs).macro = "ESP_LOG_LEVEL_LOCAL"
              THEN ESP_LOG_LEVEL_LOCAL(Head(invs).sdk, Head(invs), out)
              ELSE out)

\* ---------------------------------------------------------------- headers
Headers == {"03", "05", "06", "07", "09"}

obj(f, i) == [kind |-> "object", name |-> f, init |-> i]
inc(f) == [kind |-> "include", name |-> f, init |-> "none"]
once == [kind |-> "pragma_once", name |-> "", init |-> "none"]
fun(f) == [kind |-> "function", name |-> f, init |-> "none"]

\* The include directives of each header, top to bottom.
HeaderIncludes(h) ==
  CASE h = "03" ->
         <<inc("stdio.h"), inc("freertos/FreeRTOS.h"), inc("freertos/task.h"),
           inc("sdkconfig.h"), inc("esp_chip_info.h"), inc("driver/gpio.h"),
           inc("led_strip.h")>>
    [] h = "05" ->
         <<inc("stdio.h"), inc("freertos/FreeRTOS.h"), inc("freertos/task.h"),
           inc("sdkconfig.h"), inc("esp_chip_info.h"), inc("nvs_flash.h"),
           inc("esp_wifi.h"), inc("string.h")>>
    [] h = "06" ->
         <<inc("stdio.h"), inc("freertos/FreeRTOS.h"), inc("freertos/task.h"),
           inc("esp_chip_info.h"), inc("sdkconfig.h"), inc("esp_event.h"),
           inc("esp_log.h"), inc("esp_wifi.h"), inc("nvs_flash.h")>>
    [] h = "07" ->
         <<inc("stdio.h"), inc("freertos/FreeRTOS.h"), inc("esp_chip_info.h"),
           inc("sdkconfig.h"), inc("esp_log.h")>>
    [] OTHER ->
         <<inc("esp_log.h")>>

\* A variant in which 05_wifi_scan keeps the default in a file-scope object.
HeaderBodyWithObject(h) ==
  CASE h = "03" -> <<>>
    [] h = "05" -> <<once, obj("default_config", "WIFI_INIT_CONFIG_DEFAULT"),
                     fun("shim_wifi_init_config")>>
    [] h = "06" -> <<once, fun("shim_wifi_init_config")>>
    [] h = "07" -> <<once, fun("shim_esp_log_level_local")>>
    [] OTHER    -> <<fun("shim_esp_log_level_local")>>

\* What follows the include directives in each header.
HeaderBody(h) ==
  CASE h = "03" -> <<>>
    [] h = "05" -> <<once, fun("shim_wifi_init_config")>>
    [] h = "06" -> <<once, fun("shim_wifi_init_config")>>
    [] h = "07" -> <<once, fun("shim_esp_log_level_local")>>
    [] OTHER    -> <<fun("shim_esp_log_level_local")>>

\* What each header holds, top to bottom.  An item of kind "object" would be
\* a definition with static storage, its init naming a vendor macro its
\* initializer expands.
HeaderItems(h) == HeaderIncludes(h) \o HeaderBody(h)

Items(h, k) == {i \in 1..Len(HeaderItems(h)) : HeaderItems(h)[i].kind = k}

\* Headers that define a shim function.
ShimHeaders == {h \in Headers : Items(h, "function") # {}}

\* ---------------------------------------------------------------- actions
Init ==
  /\ sdk \in SdkStates
  /\ logOut = <<>>
  /\ shimStatics = Uninit
  /\ pc = [t \in Threads |-> "idle"]
  /\ frame = [t \in Threads |-> NoFrame]
  /\ args = [t \in Threads |-> NoArgs]
  /\ mem = [t \in Threads |-> NoMem]
  /\ seen = [t \in Threads |-> <<>>]
  /\ macroEvals = 0
  /\ returned = <<>>
  /\ shimCalls = 0
  /\ included = [h \in Headers |-> 0]
  /\ onceFiles = {}
  /\ tuDefs = [h \in Headers |-> 0]
  /\ tuGlobals = {}

\* static inline gives every translation unit its own copy; a thread's caller
\* is compiled against one project's header.
\* Each caller logs under its own module's tag.
TagOf(t) == IF t % 2 = 1 THEN <<"T">> ELSE <<"U">>

WifiCopy(t) == IF t % 2 = 1 THEN "05" ELSE "06"
LogCopy(t) == IF t % 2 = 1 THEN "07" ELSE "09"

\* A caller enters shim_wifi_init_config(void).
CallWifi(t) ==
  /\ pc[t] = "idle"
  /\ shimCalls < MaxCalls
  /\ frame' = [frame EXCEPT ![t] =
                 [NoFrame EXCEPT !.fn = "wifi", !.copy = WifiCopy(t)]]
  /\ seen' = [seen EXCEPT ![t] = <<>>]
  /\ pc' = [pc EXCEPT ![t] = "init"]
  /\ shimCalls' = shimCalls + 1
  /\ UNCHANGED <<sdk, logOut, shimStatics, args, mem, macroEvals, returned>>
  /\ UNCHANGED ppVars

\* A caller enters shim_esp_log_level_local(config, tag, message): the
\* configuration is copied and the two pointers are passed.
CallLog(t) ==
  /\ pc[t] = "idle"
  /\ shimCalls < MaxCalls
  /\ seen' = [seen EXCEPT ![t] = <<>>]
  /\ \E d \in LogConfigs, msg \in Messages :
       /\ args' = [args EXCEPT ![t] = [config |-> [data |-> d],
                                       tag |-> "tagbuf", message |-> "msgbuf"]]
       /\ mem' = [mem EXCEPT ![t] = [tagbuf |-> TagOf(t), msgbuf |-> msg]]
       /\ frame' = [frame EXCEPT ![t] =
                      [NoFrame EXCEPT !.fn = "log", !.copy = LogCopy(t),
                                      !.p_config = [data |-> d],
                                      !.p_tag = "tagbuf",
                                      !.p_message = "msgbuf"]]
  /\ pc' = [pc EXCEPT ![t] = "log"]
  /\ shimCalls' = shimCalls + 1
  /\ UNCHANGED <<sdk, logOut, shimStatics, macroEvals, returned>>
  /\ UNCHANGED ppVars

\* The SDK state the first macro invocation of a call ran in.
SdkAt(invs, g) == IF invs = <<>> THEN g ELSE invs[1].sdk

\* One statement of the shim thread t is in.  With the return the call
\* expression is complete: the frame is popped, the value is handed back and
\* the caller's argument temporaries are gone.
Statement(t) ==
  LET out  == RunShim(pc[t], frame[t], shimStatics, mem[t], sdk)
      now  == SeenAll(t, out.calls, out.mem, sdk)
  IN /\ shimStatics' = out.statics
     /\ macroEvals' = macroEvals + Len(now)
     /\ logOut' = Emit(now, logOut)
     /\ pc' = [pc EXCEPT ![t] = out.next]
     /\ IF out.next = "idle"
          THEN /\ frame' = [frame EXCEPT ![t] = NoFrame]
               /\ args' = [args EXCEPT ![t] = NoArgs]
               /\ mem' = [mem EXCEPT ![t] = NoMem]
               /\ seen' = [seen EXCEPT ![t] = <<>>]
               /\ returned' = Append(returned,
                                     [fn    |-> frame[t].fn,
                                      value |-> out.ret,
                                      evals |-> Len(seen[t] \o now),
                                      at    |-> SdkAt(seen[t] \o now, sdk)])
          ELSE /\ frame' = [frame EXCEPT ![t] = out.local]
               /\ mem' = [mem EXCEPT ![t] = out.mem]
               /\ seen' = [seen EXCEPT ![t] = seen[t] \o now]
               /\ UNCHANGED <<args, returned>>
     /\ UNCHANGED <<sdk, shimCalls>>
     /\ UNCHANGED ppVars

WifiInit(t) == pc[t] = "init" /\ Statement(t)
WifiReturn(t) == pc[t] = "ret" /\ Statement(t)
LogEval(t) == pc[t] = "log" /\ Statement(t)
LogReturn(t) == pc[t] = "end" /\ Statement(t)

\* The SDK, or other code of the firmware, changes a global the macros read.
SdkChange ==
  /\ \E g \in SdkStates : g # sdk /\ SameBuild(g, sdk) /\ sdk' = g
  /\ UNCHANGED <<logOut, shimStatics, pc, frame, args, mem, seen, macroEvals,
                 returned, shimCalls>>
  /\ UNCHANGED ppVars

\* The preprocessor meets #include of header h in the translation unit.  A
\* file already marked #pragma once is skipped; otherwise the whole file is
\* read: the pragma marks it, each function definition and each object
\* definition is added to the unit, and an object's initializer that expands
\* a vendor macro is an invocation made before any shim is called.
Include(h) ==
  /\ included[h] < MaxIncludes
  /\ included' = [included EXCEPT ![h] = included[h] + 1]
  /\ IF h \in onceFiles
       THEN UNCHANGED <<onceFiles, tuDefs, tuGlobals, macroEvals>>
       ELSE /\ onceFiles' = IF Items(h, "pragma_once") # {}
                              THEN onceFiles \cup {h} ELSE onceFiles
            /\ tuDefs' = [tuDefs EXCEPT ![h] =
                            tuDefs[h] + Cardinality(Items(h, "function"))]
            /\ tuGlobals' = tuGlobals \cup
                            {HeaderItems(h)[i].name : i \in Items(h, "object")}
            /\ macroEvals' = macroEvals + Cardinality(
                   {i \in Items(h, "object") : HeaderItems(h)[i].init # "none"})
  /\ UNCHANGED <<sdk, logOut, shimStatics, pc, frame, args, mem, seen,
                 returned, shimCalls>>

Next ==
  \/ \E t \in Threads : CallWifi(t)
  \/ \E t \in Threads : CallLog(t)
  \/ \E t \in Threads : WifiInit(t)
  \/ \E t \in Threads : WifiReturn(t)
  \/ \E t \in Threads : LogEval(t)
  \/ \E t \in Threads : LogReturn(t)
  \/ SdkChange

Spec == Init /\ [][Next]_vars

\* A scheduled thread runs its next statement.
Fairness ==
  \A t \in Threads :
    WF_vars(WifiInit(t) \/ WifiReturn(t) \/ LogEval(t) \/ LogReturn(t))

LiveSpec == Init /\ [][Next]_vars /\ Fairness

\* Building a translation unit from the headers.
PPNext == \E h \in Headers : Include(h)

PPSpec == Init /\ [][PPNext]_vars

\* ------------------------------------------------------------- properties
InShim(t) == pc[t] # "idle"
WifiReturns == {i \in 1..Len(returned) : returned[i].fn = "wifi"}
LogReturns == {i \in 1..Len(returned) : returned[i].fn = "log"}

\* C1: every value shim_wifi_init_config has returned came from exactly one
\* expansion of WIFI_INIT_CONFIG_DEFAULT() and equals, field for field, what
\* that expansion yields in the SDK state it ran in.
C1_ForwardingEquivalence ==
  \A i \in WifiReturns :
    /\ returned[i].evals = 1
    /\ \A f \in ConfigFields :
         returned[i].value[f] = WIFI_INIT_CONFIG_DEFAULT(returned[i].at)[f]

\* A value was returned after the SDK globals changed again: it is the
\* expansion in the state of the call, with a non-zero field.
C1_Witness ==
  \E i \in WifiReturns :
    /\ returned[i].at # sdk
    /\ returned[i].value.feature_caps = 1

\* C2: once the macro statement of shim_esp_log_level_local has run, the
\* vendor macro has been handed exactly (config.data, tag, "%s", message),
\* the text that format produces is the message verbatim, and every line in
\* the log sink carries a caller's tag and a caller's message unchanged.
C2_LogArgumentsForwarded ==
  /\ \A t \in Threads :
       pc[t] = "end" =>
         /\ Len(seen[t]) = 1
         /\ seen[t][1].macro = "ESP_LOG_LEVEL_LOCAL"
         /\ seen[t][1].configs = args[t].config.data
         /\ seen[t][1].tag = args[t].tag
         /\ seen[t][1].format = <<"%", "s">>
         /\ seen[t][1].va = <<args[t].message>>
         /\ seen[t][1].tagText = mem[t].tagbuf
         /\ vprintf(seen[t][1].format, seen[t][1].vaText) = mem[t].msgbuf
  /\ \A i \in 1..Len(logOut) :
       logOut[i].tag \in Tags /\ logOut[i].text \in Messages

\* A message that is itself a conversion sequence has been logged verbatim.
C2_Witness ==
  \E t \in Threads :
    /\ pc[t] = "end"
    /\ mem[t].msgbuf = <<"%", "s">>
    /\ Len(logOut) >= 1
    /\ logOut[Len(logOut)].text = <<"%", "s">>
    /\ logOut[Len(logOut)].tag = mem[t].tagbuf

\* The macro invocations a step of thread t adds to those of its call.
NewSeen(t) ==
  IF pc'[t] = "idle" THEN <<>>
  ELSE SubSeq(seen'[t], Len(seen[t]) + 1, Len(seen'[t]))

\* C3: a step of a shim leaves the SDK globals and the storage outside its
\* frame as they were, leaves the caller's arguments and buffers as they
\* were while the call runs, changes the log sink only by what the vendor
\* macro invocations of that step emit, and the statement a running shim is
\* about to execute writes neither the caller's buffers nor that storage.
C3_NoEffectBeyondMacro ==
  /\ [][ /\ (pc' # pc => sdk' = sdk)
         /\ shimStatics' = shimStatics
         /\ \A t \in Threads :
              /\ (InShim(t) /\ pc'[t] # "idle") =>
                   args'[t] = args[t] /\ mem'[t] = mem[t]
              /\ (InShim(t) /\ pc'[t] # pc[t]) =>
                   logOut' = Emit(NewSeen(t), logOut)
              /\ (~InShim(t) /\ pc'[t] # pc[t]) => logOut' = logOut
       ]_vars
  /\ [](\A t \in Threads :
          InShim(t) =>
            /\ RunShim(pc[t], frame[t], shimStatics, mem[t], sdk).mem = mem[t]
            /\ RunShim(pc[t], frame[t], shimStatics, mem[t], sdk).statics
                 = shimStatics)

\* A log call has logged one line and returned, and a wifi call made after
\* it is about to return.
C3_Witness ==
  /\ Len(returned) = 1
  /\ returned[1].fn = "log"
  /\ Len(logOut) = 1
  /\ \E t \in Threads : pc[t] = "ret"

\* C4: building a translation unit from the headers defines no object with
\* static storage, invokes no vendor macro, and leaves the log sink, the
\* storage outside the frames and the threads as they were before any
\* inclusion: nothing runs until a shim is called.
C4_InclusionHasNoEffect ==
  /\ tuGlobals = {}
  /\ macroEvals = 0
  /\ logOut = <<>>
  /\ shimStatics = Uninit
  /\ shimCalls = 0
  /\ \A t \in Threads : pc[t] = "idle" /\ frame[t] = NoFrame

\* Every one of the five headers has been included.
C4_Witness == \A h \in Headers : included[h] >= 1

\* C5: a shim call has no outcome but a normal return: a thread is idle or
\* at a statement of a shim, every call started is running or has returned,
\* shim_wifi_init_config has always handed back a configuration value, and
\* shim_esp_log_level_local has handed every configuration word, disabled
\* or outside the enumeration included, to the vendor macro as given.
C5_NoFailureOutcome ==
  /\ \A t \in Threads : pc[t] \in {"idle", "init", "ret", "log", "end"}
  /\ shimCalls = Len(returned) + Cardinality({t \in Threads : InShim(t)})
  /\ \A i \in WifiReturns :
       \E g \in SdkStates : returned[i].value = WIFI_INIT_CONFIG_DEFAULT(g)
  /\ \A i \in LogReturns : returned[i].evals >= 1
  /\ \A t \in Threads :
       pc[t] = "end" =>
         Len(seen[t]) >= 1 /\ seen[t][1].configs = frame[t].p_config.data

\* A log call has returned without a line being logged, and a second one,
\* whose level is outside the enumeration, is past the macro and about to
\* return.
C5_Witness ==
  /\ Cardinality(LogReturns) = 1
  /\ \E t \in Threads : pc[t] = "end" /\ args[t].config.data = 7
  /\ sdk.log_maximum_level = 3
  /\ logOut = <<>>

\* C6: the vendor macro has been evaluated once for every shim call that is
\* past its macro statement, never more, and a thread inside a shim
\* eventually is outside it again.
C6_OneEvaluationPerCall ==
  /\ [](/\ macroEvals = Len(returned)
                        + Cardinality({t \in Threads : pc[t] \in {"ret", "end"}})
        /\ \A t \in Threads : Len(seen[t]) = IF pc[t] \in {"ret", "end"} THEN 1 ELSE 0
        /\ \A i \in 1..Len(returned) : returned[i].evals = 1)
  /\ \A t \in Threads : InShim(t) ~> ~InShim(t)

\* Every call allowed has been made and has returned.
C6_Witness ==
  /\ shimCalls = MaxCalls
  /\ Len(returned) = MaxCalls
  /\ macroEvals = MaxCalls
  /\ \E i \in WifiReturns : TRUE
  /\ \E i \in LogReturns : TRUE

ThreadStep(t) == WifiInit(t) \/ WifiReturn(t) \/ LogEval(t) \/ LogReturn(t)

\* C7: the headers keep no storage outside the frames; a running shim holds
\* its own caller's arguments, has forwarded its own caller's strings and
\* holds the expansion of its own call, whatever the other threads do; and
\* a thread inside a shim can always take its next step.
C7_NoSharedState ==
  /\ shimStatics = Uninit
  /\ \A t \in Threads :
       /\ pc[t] \in {"log", "end"} =>
            /\ frame[t].p_config = args[t].config
            /\ frame[t].p_tag = args[t].tag
            /\ frame[t].p_message = args[t].message
       /\ pc[t] = "end" =>
            /\ seen[t][1].thread = t
            /\ seen[t][1].tagText = TagOf(t)
            /\ seen[t][1].vaText = <<mem[t].msgbuf>>
       /\ pc[t] = "ret" =>
            frame[t].config = WIFI_INIT_CONFIG_DEFAULT(seen[t][1].sdk)
       /\ InShim(t) => ENABLED ThreadStep(t)

\* Two threads are inside shim_wifi_init_config at once, each holding the
\* expansion of a different SDK state.
C7_Witness ==
  \E t, u \in Threads :
    /\ t # u
    /\ pc[t] = "ret"
    /\ pc[u] = "ret"
    /\ frame[t].config # frame[u].config

\* C8: a header that defines a shim and has been included twice or more has
\* put exactly one definition of its shim in the translation unit.
C8_OneDefinitionPerHeader ==
  \A h \in ShimHeaders : included[h] >= 2 => tuDefs[h] = 1

\* C9: from the state a running shim is in, the two copies of that shim do
\* the same: the same frame, the same storage, the same buffers, the same
\* macro invocations with the same effect on the log sink, the same value.
C9_CopiesEquivalent ==
  \A t \in Threads :
    /\ frame[t].fn = "wifi" =>
         shim_wifi_init_config_05(pc[t], frame[t], shimStatics, mem[t], sdk)
           = shim_wifi_init_config_06(pc[t], frame[t], shimStatics, mem[t], sdk)
    /\ frame[t].fn = "log" =>
         /\ shim_esp_log_level_local_07(pc[t], frame[t], shimStatics, mem[t], sdk)
              = shim_esp_log_level_local_09(pc[t], frame[t], shimStatics, mem[t], sdk)
         /\ LET a == shim_esp_log_level_local_07(pc[t], frame[t], shimStatics, mem[t], sdk)
                b == shim_esp_log_level_local_09(pc[t], frame[t], shimStatics, mem[t], sdk)
            IN Emit(SeenAll(t, a.calls, a.mem, sdk), logOut)
                 = Emit(SeenAll(t, b.calls, b.mem, sdk), logOut)

\* One thread is about to expand the wifi default in the 05 copy while
\* another is about to log an enabled line in the 09 copy.
C9_Witness ==
  \E t, u \in Threads :
    /\ pc[t] = "init" /\ frame[t].copy = "05"
    /\ pc[u] = "log" /\ frame[u].copy = "09"
    /\ ESP_LOG_ENABLED(sdk, frame[u].p_config.data)

====
